---- MODULE Spec2Model ----
(***************************************************************************)
(* Model of the status resolution engine of att_preventivos:               *)
(*   attStatusPreventivos_cobranca.py    (invoice+company variant)         *)
(*   attStatusPreventivos_preventivos.py (order-number variant)            *)
(* The authenticated client (ConfirmaFacilAPI), its retry loop, and the    *)
(* resolver / main orchestration are modelled step by step: one step per   *)
(* remote interaction (login POST, occurrence GET).                        *)
(***************************************************************************)
EXTENDS Integers, Sequences, FiniteSets, TLC

VARIABLES
    token,        \* ConfirmaFacilAPI.token (NoToken models Python None)
    apc,          \* position of the API object: "new" before __init__, "ready" after
    json_exc,     \* TRUE iff the installed requests raises JSONDecodeError as a RequestException
    rpc,          \* position inside _request: "idle", "get", "auth", "ret", "raised"
    hdr,          \* headers["Authorization"] of the running _request call
    attempt,      \* loop variable of _request
    retries,      \* parameter of the running _request call
    result,       \* value returned by the last _request call
    trace,        \* remote interactions and sleeps of the running _request call (history)
    ncalls,       \* number of _request calls started (history)
    variant,      \* which script runs: "cobranca", "preventivos"; "client" for the API object alone
    mpc,          \* position of main / resolver_status
    values,       \* rows read from the sheet (result.get("values", []))
    has_header,   \* has_header of the loader
    pares,        \* pares (cobranca) / pedidos_list (preventivos) returned by the loader
    unicos,       \* pares_unicos / pedidos_unicos
    ki,           \* index of the key (cobranca) or sublote (preventivos) being resolved
    page,         \* params["page"] of the running fetch_ocorrencias
    total_pages,  \* total_pages of the running fetch_ocorrencias
    respostas,    \* respostas accumulated by the running fetch_ocorrencias
    flags,        \* flags of resolver_status (preventivos)
    status_map,   \* status_map of resolver_status
    statuses,     \* statuses built by main
    init_auth,    \* what authenticate() returned inside __init__ (history)
    fetch_log,    \* arguments of the fetch_ocorrencias calls of the run (history)
    write_log,    \* keys assigned in status_map, in order (history)
    fn_pc,        \* function under a direct call: "none", or its name until it returns, then "ret"
    fn_in,        \* arguments of the direct call
    fn_out        \* value the direct call returned

apiVars == <<token, apc, json_exc, init_auth>>
reqVars == <<rpc, hdr, attempt, retries, result, trace, ncalls>>
inVars == <<variant, values, has_header, pares, unicos>>
runVars == <<mpc, ki, page, total_pages, respostas, flags, status_map, statuses,
             fetch_log, write_log>>
fnVars == <<fn_pc, fn_in, fn_out>>
vars == <<token, apc, json_exc, init_auth, rpc, hdr, attempt, retries, result,
          trace, ncalls, variant, values, has_header, pares, unicos, mpc, ki, page,
          total_pages, respostas, flags, status_map, statuses, fetch_log, write_log,
          fn_pc, fn_in, fn_out>>

----------------------------------------------------------------------------
(* Tokens, envelopes and remote outcomes *)

NoToken == "None"
EmptyToken == ""
Tokens == {"T1", "T2"}

\* retries: int = 3
DefaultRetries == 3

\* number of _request calls made on one API object in the client-level specification
MaxCalls == 2

\* {"respostas": []}; a payload without totalPages reads as 0 pages
EmptyResult == [respostas |-> <<>>, totalPages |-> 0]

----------------------------------------------------------------------------
(* Python values and strings.  A str is a sequence of one-character strings. *)

PyNone == [ty |-> "none", s |-> <<>>, n |-> 0]
PyStr(cs) == [ty |-> "str", s |-> cs, n |-> 0]
PyInt(k) == [ty |-> "int", s |-> <<>>, n |-> k]
\* a float: n is the integer part and s what repr() prints after it
PyFloat(k, frac) == [ty |-> "float", s |-> frac, n |-> k]
DotZero == <<".", "0">>
NaNText == <<"n", "a", "n">>
PyNaN == [ty |-> "float", s |-> NaNText, n |-> 0]

\* isinstance(value, float) and pd.isna(value)
IsNaNFloat(v) == v.ty = "float" /\ v.s = NaNText

\* isinstance(value, float) and value.is_integer()
IsIntegerFloat(v) == v.ty = "float" /\ v.s = DotZero

\* truth value of a Python value ("if not pedido", "x or {}")
Truthy(v) ==
    CASE v.ty = "none" -> FALSE
      [] v.ty = "int" -> v.n # 0
      [] v.ty = "float" -> ~(v.n = 0 /\ v.s = DotZero)
      [] OTHER -> v.s # <<>>

DigitChars == <<"0", "1", "2", "3", "4", "5", "6", "7", "8", "9">>
Digits == {DigitChars[i] : i \in 1..10}

RECURSIVE NatStr(_)
NatStr(k) == IF k < 10 THEN <<DigitChars[k + 1]>>
             ELSE NatStr(k \div 10) \o <<DigitChars[(k % 10) + 1]>>

\* str(int)
IntStr(k) == IF k < 0 THEN <<"-">> \o NatStr(-k) ELSE NatStr(k)

\* str(value)
Str(v) ==
    CASE v.ty = "none" -> <<"N", "o", "n", "e">>
      [] v.ty = "int" -> IntStr(v.n)
      [] v.ty = "float" -> IF IsNaNFloat(v) THEN NaNText ELSE IntStr(v.n) \o v.s
      [] OTHER -> v.s

IsSpace(c) == c = " "

RECURSIVE LStrip(_)
LStrip(cs) == IF cs # <<>> /\ IsSpace(Head(cs)) THEN LStrip(Tail(cs)) ELSE cs

RECURSIVE RStrip(_)
RStrip(cs) == IF cs # <<>> /\ IsSpace(cs[Len(cs)]) THEN RStrip(SubSeq(cs, 1, Len(cs) - 1)) ELSE cs

\* str.strip()
Strip(cs) == RStrip(LStrip(cs))

\* str.isdigit(): non-empty and digits only
IsDigitStr(cs) == cs # <<>> /\ \A i \in 1..Len(cs) : cs[i] \in Digits

\* str.lower() on the letters the inputs use
LowerChar(c) ==
    CASE c = "N" -> "n"
      [] c = "A" -> "a"
      [] c = "P" -> "p"
      [] c = "F" -> "f"
      [] OTHER -> c

Lower(cs) == [i \in 1..Len(cs) |-> LowerChar(cs[i])]

\* text.endswith(".0")
EndsWithDotZero(cs) == Len(cs) >= 2 /\ cs[Len(cs) - 1] = "." /\ cs[Len(cs)] = "0"

\* variant of normalize_nf: a trailing ".0" is dropped whatever precedes it
normalize_nf_AnyDotZero(v) ==
    CASE v.ty = "none" \/ IsNaNFloat(v) -> <<>>
      [] v.ty = "int" -> IntStr(v.n)
      [] IsIntegerFloat(v) -> IntStr(v.n)
      [] OTHER ->
           LET text == Strip(Str(v))
           IN  IF EndsWithDotZero(text)
               THEN SubSeq(text, 1, Len(text) - 2)
               ELSE text

\* normalize_nf (cobranca)
normalize_nf(v) ==
    CASE v.ty = "none" \/ IsNaNFloat(v) -> <<>>
      [] v.ty = "int" -> IntStr(v.n)
      [] IsIntegerFloat(v) -> IntStr(v.n)
      [] OTHER ->
           LET text == Strip(Str(v))
           IN  IF EndsWithDotZero(text) /\ IsDigitStr(SubSeq(text, 1, Len(text) - 2))
               THEN SubSeq(text, 1, Len(text) - 2)
               ELSE text

\* normalize_pedido (preventivos): the same body as normalize_nf
normalize_pedido(v) ==
    CASE v.ty = "none" \/ IsNaNFloat(v) -> <<>>
      [] v.ty = "int" -> IntStr(v.n)
      [] IsIntegerFloat(v) -> IntStr(v.n)
      [] OTHER ->
           LET text == Strip(Str(v))
           IN  IF EndsWithDotZero(text) /\ IsDigitStr(SubSeq(text, 1, Len(text) - 2))
               THEN SubSeq(text, 1, Len(text) - 2)
               ELSE text

IsDigitChar(c) == c \in Digits

\* the width of a company id: len(digits) < 14, digits.zfill(14)
CnpjWidth == 14

\* str.zfill(width)
ZFill(cs, width) ==
    IF Len(cs) >= width THEN cs
    ELSE [i \in 1..(width - Len(cs)) |-> "0"] \o cs

\* normalize_cnpj
normalize_cnpj(v) ==
    IF v.ty = "none" \/ IsNaNFloat(v) THEN <<>>
    ELSE LET digits == SelectSeq(Str(v), IsDigitChar)
         IN  IF digits = <<>> THEN <<>>
             ELSE IF Len(digits) < CnpjWidth THEN ZFill(digits, CnpjWidth)
             ELSE digits

----------------------------------------------------------------------------
(* Occurrence records and response envelopes *)

\* one element of "respostas": the direct order number, the one nested under
\* "embarque", and tipoOcorrencia.codigo (PyNone when the field is absent)
Item(ped, emb, cod) == [pedido |-> ped, embarque |-> emb, codigo |-> cod]

S1 == <<"1">>
S7 == <<"7">>
S8 == <<"8">>
S9 == <<"9">>
S25 == <<"2", "5">>

\* bodies the service may send to the invoice+company script
CobPayloads ==
    { EmptyResult,
      [respostas |-> <<Item(PyNone, PyNone, PyInt(1))>>, totalPages |-> 1],
      [respostas |-> <<Item(PyNone, PyNone, PyStr(S25))>>, totalPages |-> 1],
      [respostas |-> <<Item(PyNone, PyNone, PyStr(<<"2", "5", " ">>)),
                       Item(PyNone, PyNone, PyStr(S1)),
                       Item(PyNone, PyNone, PyNone)>>, totalPages |-> 1] }

\* bodies the service may send to the order-number script
PrevPayloads ==
    { EmptyResult,
      [respostas |-> <<Item(PyStr(S7), PyNone, PyInt(1))>>, totalPages |-> 1],
      [respostas |-> <<Item(PyNone, PyInt(8), PyStr(S25)),
                       Item(PyStr(S9), PyNone, PyStr(S1))>>, totalPages |-> 2],
      [respostas |-> <<Item(PyInt(7), PyNone, PyStr(S25))>>, totalPages |-> 1] }

\* parsed bodies a successful GET may carry
Payloads ==
    CASE variant = "preventivos" -> PrevPayloads
      [] OTHER -> CobPayloads

\* outcomes of session.get as _request sees them: a 2xx answer with a JSON body,
\* 401, 404, another 4xx/5xx status, an exception of session.get (connection
\* error, timeout, transport retries exhausted), a 2xx answer with an unparseable body
GetOutcomes ==
    IF variant = "client" THEN {"ok", "401", "404", "http", "neterr", "badjson"}
    ELSE {"ok", "401", "404", "http", "neterr"}

\* outcomes of the login POST as authenticate sees them: a token, an exception
\* of session.post, a non-2xx status, a body on which .json().get().get() raises,
\* a body without token, a body with an empty token
LoginOutcomes ==
    IF variant = "client" THEN {"ok", "neterr", "http", "badbody", "notoken", "emptytoken"}
    ELSE {"ok", "neterr", "notoken"}

\* tokens the login endpoint may issue when `cur` is stored: any token for the
\* API object alone; in a run of main, a token that differs from the stored one
IssuedTokens(cur) ==
    IF variant = "client" THEN Tokens
    ELSE {IF cur = "T1" THEN "T2" ELSE "T1"}

\* entries of trace: a GET with its Authorization header, outcome and parsed body;
\* a login POST with the token stored before it, its outcome and the token it
\* carried; a sleep with its duration
GetEv(h, o, b) == [op |-> "get", auth |-> h, out |-> o, body |-> b, tok |-> NoToken, secs |-> 0]
LoginEv(before, o, t) ==
    [op |-> "login", auth |-> before, out |-> o, body |-> EmptyResult,
     tok |-> IF o = "ok" THEN t ELSE NoToken, secs |-> 0]
SleepEv(n) == [op |-> "sleep", auth |-> NoToken, out |-> "", body |-> EmptyResult, tok |-> NoToken, secs |-> n]

----------------------------------------------------------------------------
(* ConfirmaFacilAPI.authenticate *)

\* variant of AuthToken: the token is cleared at the start of every call
AuthToken_ClearedFirst(old, out, tok) ==
    CASE out = "ok" -> tok
      [] out = "emptytoken" -> EmptyToken
      [] OTHER -> NoToken

\* the value of self.token after authenticate(): the assignment on the
\* success path is only reached when neither the POST, raise_for_status nor
\* the .json().get(...).get(...) chain raised
AuthToken(old, out, tok) ==
    CASE out = "ok" -> tok
      [] out = "notoken" -> NoToken
      [] out = "emptytoken" -> EmptyToken
      [] OTHER -> old

\* variant of AuthReturn: the result of the login is not looked at
AuthReturn_Ignored(out, tok) == TRUE

\* the value authenticate() returns: bool(self.token) or False from the handler
AuthReturn(out, tok) ==
    CASE out = "ok" -> TRUE
      [] OTHER -> FALSE

\* ConfirmaFacilAPI.__init__: token = None, then authenticate() whose result is ignored
NewAPI ==
    /\ \E out \in LoginOutcomes, tok \in IssuedTokens(NoToken) :
          /\ token' = AuthToken(NoToken, out, tok)
          /\ init_auth' = AuthReturn(out, tok)
          /\ trace' = <<LoginEv(NoToken, out, tok)>>
    /\ apc' = "ready"
    /\ UNCHANGED json_exc

----------------------------------------------------------------------------
(* ConfirmaFacilAPI._request *)

\* variant of AttemptAfterReauth: the 401 branch repeats the iteration
AttemptAfterReauth_Same(a) == a

\* the attempt number of the iteration entered after `continue` on a 401
AttemptAfterReauth(a) == a + 1

\* if attempt == retries
IsLastAttempt(a, r) == a = r

\* time.sleep(2 * attempt)
BackoffSecs(a) == 2 * a

\* the frame of a _request call is gone once its caller took the result
EndRequest ==
    /\ rpc' = "idle"
    /\ hdr' = NoToken
    /\ attempt' = 0
    /\ retries' = 0
    /\ result' = EmptyResult
    /\ trace' = <<>>

\* headers = {"Authorization": self.token, ...}; first iteration of the loop
BeginRequest(r) ==
    /\ rpc' = IF r >= 1 THEN "get" ELSE "ret"
    /\ hdr' = token
    /\ attempt' = 1
    /\ retries' = r
    /\ result' = EmptyResult
    /\ trace' = <<>>

\* variant of Advance: the loop has no upper bound
Advance_Unbounded(a, ev) ==
    /\ rpc' = "get"
    /\ attempt' = a
    /\ result' = result
    /\ trace' = ev

\* the next iteration of the for loop, or the return after the loop
Advance(a, ev) ==
    IF a <= retries
    THEN /\ rpc' = "get"
         /\ attempt' = a
         /\ result' = result
         /\ trace' = ev
    ELSE /\ rpc' = "ret"
         /\ attempt' = attempt
         /\ result' = EmptyResult
         /\ trace' = ev

\* response.status_code == 401
IsUnauthorized(out) == out = "401"

\* variant of IsNotFound: no special case for 404
IsNotFound_Never(out) == FALSE

\* response.status_code == 404
IsNotFound(out) == out = "404"

\* response.raise_for_status() raises HTTPError for every 4xx/5xx status
RaisesForStatus(out) == out \in {"401", "404", "http"}

\* variant of ParsedBody: the envelope is returned without its records
ParsedBody_NoRecords(body) == [body EXCEPT !.respostas = <<>>]

\* return response.json()
ParsedBody(body) == body

\* the except branch: give up on the last attempt, otherwise sleep and loop
OnRequestException(ev) ==
    IF IsLastAttempt(attempt, retries)
    THEN /\ rpc' = "ret"
         /\ result' = EmptyResult
         /\ trace' = ev
         /\ UNCHANGED attempt
    ELSE Advance(attempt + 1, Append(ev, SleepEv(BackoffSecs(attempt))))

\* an exception leaves _request
Raise(ev) ==
    /\ rpc' = "raised"
    /\ trace' = ev
    /\ UNCHANGED <<attempt, result>>

\* one iteration up to and including the GET and the handling of its response,
\* except the re-authentication, which is the next step
ReqGet ==
    /\ UNCHANGED fnVars
    /\ rpc = "get"
    /\ \E out \in GetOutcomes, body \in Payloads :
        LET ev == Append(trace, GetEv(hdr, out, IF out = "ok" THEN body ELSE EmptyResult))
        IN  IF out = "neterr"
            THEN \* session.get raises outside the try block
                 Raise(ev)
            ELSE IF IsUnauthorized(out)
            THEN /\ rpc' = "auth"
                 /\ trace' = ev
                 /\ UNCHANGED <<attempt, result>>
            ELSE IF IsNotFound(out)
            THEN /\ rpc' = "ret"
                 /\ result' = EmptyResult
                 /\ trace' = ev
                 /\ UNCHANGED attempt
            ELSE IF RaisesForStatus(out)
            THEN OnRequestException(ev)
            ELSE IF out = "badjson"
            THEN \* response.json() raises; only a RequestException is caught
                 IF json_exc THEN OnRequestException(ev) ELSE Raise(ev)
            ELSE /\ rpc' = "ret"
                 /\ result' = ParsedBody(body)
                 /\ trace' = ev
                 /\ UNCHANGED attempt
    /\ UNCHANGED <<token, apc, json_exc, init_auth, hdr, retries, ncalls>>
    /\ UNCHANGED <<inVars, runVars>>

\* variant of HeaderAfterReauth: the headers built at the start of the call are kept
HeaderAfterReauth_Kept(old, newtok) == old

\* headers["Authorization"] = self.token, after a successful authenticate()
HeaderAfterReauth(old, newtok) == newtok

\* the 401 branch: authenticate(), then return empty or `continue` with the new token
ReqAuth ==
    /\ UNCHANGED fnVars
    /\ rpc = "auth"
    /\ \E out \in LoginOutcomes, tok \in IssuedTokens(token) :
        LET ev == Append(trace, LoginEv(token, out, tok))
            newtok == AuthToken(token, out, tok)
        IN  /\ token' = newtok
            /\ IF ~AuthReturn(out, tok)
               THEN /\ rpc' = "ret"
                    /\ result' = EmptyResult
                    /\ trace' = ev
                    /\ UNCHANGED <<hdr, attempt>>
               ELSE /\ hdr' = HeaderAfterReauth(hdr, newtok)
                    /\ Advance(AttemptAfterReauth(attempt), ev)
    /\ UNCHANGED <<apc, json_exc, init_auth, retries, ncalls>>
    /\ UNCHANGED <<inVars, runVars>>

----------------------------------------------------------------------------
(* Client-level specification: one API object, a bounded number of calls *)

Construct ==
    /\ UNCHANGED fnVars
    /\ variant = "client"
    /\ apc = "new"
    /\ NewAPI
    /\ UNCHANGED <<rpc, hdr, attempt, retries, result, ncalls, inVars, runVars>>

CallRequest ==
    /\ UNCHANGED fnVars
    /\ variant = "client"
    /\ apc = "ready"
    /\ rpc \in {"idle", "ret"}
    /\ ncalls < MaxCalls
    /\ \E r \in 1..DefaultRetries : BeginRequest(r)
    /\ ncalls' = ncalls + 1
    /\ UNCHANGED <<apiVars, inVars, runVars>>

InitCommon ==
    /\ token = NoToken
    /\ init_auth = FALSE
    /\ rpc = "idle"
    /\ hdr = NoToken
    /\ attempt = 0
    /\ retries = 0
    /\ result = EmptyResult
    /\ trace = <<>>
    /\ ncalls = 0
    /\ has_header = FALSE
    /\ pares = <<>>
    /\ unicos = <<>>
    /\ ki = 0
    /\ page = 0
    /\ total_pages = 0
    /\ respostas = <<>>
    /\ flags = <<>>
    /\ status_map = <<>>
    /\ statuses = <<>>
    /\ fetch_log = <<>>
    /\ write_log = <<>>

\* no function is under a direct call
FnIdle ==
    /\ fn_pc = "none"
    /\ fn_in = <<>>
    /\ fn_out = <<>>

Init ==
    /\ InitCommon
    /\ FnIdle
    /\ variant = "client"
    /\ json_exc \in BOOLEAN
    /\ apc = "new"
    /\ mpc = "client"
    /\ values = <<>>

Next == Construct \/ CallRequest \/ ReqGet \/ ReqAuth

Spec == Init /\ [][Next]_vars

\* a running _request goes on: session.get and session.post are given a
\* timeout, time.sleep ends, and nothing else runs in the process
Fairness == WF_vars(ReqGet) /\ WF_vars(ReqAuth)

SpecLive == Init /\ [][Next]_vars /\ Fairness

----------------------------------------------------------------------------
(* Classification: extract_codigo, extract_pedido, the scan loops *)

ENTREGUE_CODES == {<<"1">>, <<"2">>, <<"3", "7">>, <<"9", "9", "9">>}
CANCELADO_CODES == {<<"2", "5">>, <<"1", "0", "2">>, <<"2", "0", "3">>, <<"3", "0", "3">>,
                    <<"3", "2", "5">>, <<"3", "2", "7">>}

\* extract_codigo
extract_codigo(item) ==
    IF item.codigo.ty = "none" THEN <<>> ELSE Strip(Str(item.codigo))

\* extract_pedido: the direct number, or the nested one when the direct one is falsy
extract_pedido(item) ==
    normalize_pedido(IF Truthy(item.pedido) THEN item.pedido ELSE item.embarque)

NoFlags == [entregue |-> FALSE, cancelado |-> FALSE]

\* variant of ScanItems: the flags are assigned from each item, so the last one decides
ScanItems_Assign(items, acc) ==
    IF items = <<>> THEN acc
    ELSE LET codigo == extract_codigo(items[Len(items)])
         IN  [entregue |-> codigo \in ENTREGUE_CODES,
              cancelado |-> codigo \in CANCELADO_CODES]

\* the inner loop of resolver_status (cobranca): entregue / cancelado over one key's items
RECURSIVE ScanItems(_, _)
ScanItems(items, acc) ==
    IF items = <<>> THEN acc
    ELSE LET codigo == extract_codigo(Head(items))
         IN  ScanItems(Tail(items),
                       [entregue |-> acc.entregue \/ codigo \in ENTREGUE_CODES,
                        cancelado |-> acc.cancelado \/ codigo \in CANCELADO_CODES])

\* variant of StatusOf: cancelado is tested first
StatusOf_CanceladoFirst(info, default) ==
    IF info.cancelado THEN "CANCELADO"
    ELSE IF info.entregue THEN "ENTREGUE"
    ELSE default

\* the if / elif / else that turns the two flags into a status
StatusOf(info, default) ==
    IF info.entregue THEN "ENTREGUE"
    ELSE IF info.cancelado THEN "CANCELADO"
    ELSE default

\* variant of Demux: an item assigns both flags of its pedido
RECURSIVE Demux_Assign(_, _)
Demux_Assign(fl, items) ==
    IF items = <<>> THEN fl
    ELSE LET pedido == extract_pedido(Head(items))
             codigo == extract_codigo(Head(items))
         IN  IF pedido = <<>> \/ pedido \notin DOMAIN fl
             THEN Demux_Assign(fl, Tail(items))
             ELSE Demux_Assign([fl EXCEPT ![pedido] =
                                   [entregue |-> codigo \in ENTREGUE_CODES,
                                    cancelado |-> codigo \in CANCELADO_CODES]],
                               Tail(items))

\* the inner loop of resolver_status (preventivos): each item updates the flags of its own pedido
RECURSIVE Demux(_, _)
Demux(fl, items) ==
    IF items = <<>> THEN fl
    ELSE LET pedido == extract_pedido(Head(items))
             codigo == extract_codigo(Head(items))
         IN  IF pedido = <<>> \/ pedido \notin DOMAIN fl
             THEN Demux(fl, Tail(items))
             ELSE Demux([fl EXCEPT ![pedido] =
                            [entregue |-> @.entregue \/ codigo \in ENTREGUE_CODES,
                             cancelado |-> @.cancelado \/ codigo \in CANCELADO_CODES]],
                        Tail(items))

----------------------------------------------------------------------------
(* Batching and deduplication *)

\* SUBLOTE_SIZE, scaled down from 20 so that a run has several sublotes
SUBLOTE_SIZE == 2

Min(a, b) == IF a < b THEN a ELSE b

\* variant of chunked: only the full chunks are yielded
chunked_FullOnly(items, size) ==
    [c \in 1..(Len(items) \div size) |-> SubSeq(items, (c - 1) * size + 1, c * size)]

\* chunked(items, size), as the list of the chunks it yields
chunked(items, size) ==
    [c \in 1..((Len(items) + size - 1) \div size) |->
        SubSeq(items, (c - 1) * size + 1, Min(c * size, Len(items)))]

Elems(sq) == {sq[i] : i \in 1..Len(sq)}

\* list(dict.fromkeys(items)): first occurrences, in order
RECURSIVE DedupFrom(_, _)
DedupFrom(items, seen) ==
    IF items = <<>> THEN seen
    ELSE IF Head(items) \in Elems(seen) THEN DedupFrom(Tail(items), seen)
    ELSE DedupFrom(Tail(items), Append(seen, Head(items)))

\* variant of DictFromKeys: the list is used as it is
DictFromKeys_Keep(items) == items

DictFromKeys(items) == DedupFrom(items, <<>>)

----------------------------------------------------------------------------
(* Loaders: load_inputs_from_sheet (cobranca), load_pedidos_from_sheet (preventivos) *)

EmptyStr == PyStr(<<>>)

\* row[k] if len(row) > k else ""
Cell(row, k) == IF Len(row) >= k THEN row[k] ELSE EmptyStr

CobHeaderNF == {<<"n", "f">>, <<"n", "o", "t", "a">>,
                <<"n", "o", "t", "a", " ", "f", "i", "s", "c", "a", "l">>,
                <<"n", "u", "m", "e", "r", "o">>}
CobHeaderCNPJ == {<<"c", "n", "p", "j">>,
                  <<"e", "s", "t", "a", "b", "e", "l", "e", "c", "i", "m", "e", "n", "t", "o">>}
PrevHeader == {<<"p", "e", "d", "i", "d", "o">>, <<"p", "e", "d", "i", "d", "o", "s">>}

\* the header test of the loader, on the first row
HasHeader(vs) ==
    IF vs = <<>> THEN FALSE
    ELSE IF variant = "cobranca"
    THEN \/ Lower(Strip(Str(Cell(vs[1], 1)))) \in CobHeaderNF
         \/ Lower(Strip(Str(Cell(vs[1], 2)))) \in CobHeaderCNPJ
    ELSE Lower(Strip(Str(Cell(vs[1], 1)))) \in PrevHeader

\* values[start_index:]
DataRows(vs, hh) == IF hh THEN Tail(vs) ELSE vs

\* pares of load_inputs_from_sheet: one (nf, cnpj) per data row
CobPares(rows) == [i \in 1..Len(rows) |-> <<normalize_nf(Cell(rows[i], 1)), normalize_cnpj(Cell(rows[i], 2))>>]

IsNan(p) == Lower(Strip(p)) = <<"n", "a", "n">>

KeepPedido(p) == p # <<>> /\ ~IsNan(p)

\* pedidos of load_pedidos_from_sheet: normalized first column without empty and "nan" entries
PrevPedidos(rows) ==
    SelectSeq([i \in 1..Len(rows) |-> normalize_pedido(Cell(rows[i], 1))], KeepPedido)

\* variant of ValidPar: only the invoice number is tested
ValidPar_NfOnly(par) == par[1] # <<>>

\* nf and cnpj
ValidPar(par) == par[1] # <<>> /\ par[2] # <<>>

----------------------------------------------------------------------------
(* main and resolver_status *)

\* the loader call and the "if not raw_values" test of main
MainLoad ==
    /\ UNCHANGED fnVars
    /\ mpc = "start"
    /\ IF values = <<>>
       THEN /\ mpc' = "done"
            /\ UNCHANGED <<has_header, pares>>
       ELSE /\ has_header' = HasHeader(values)
            /\ pares' = IF variant = "cobranca"
                        THEN CobPares(DataRows(values, HasHeader(values)))
                        ELSE PrevPedidos(DataRows(values, HasHeader(values)))
            /\ mpc' = "loaded"
    /\ UNCHANGED <<apiVars, reqVars, variant, values, unicos, ki, page, total_pages,
                   respostas, flags, status_map, statuses, fetch_log, write_log>>

\* pares_validos / pares_unicos (cobranca), pedidos_unicos (preventivos)
MainDedup ==
    /\ UNCHANGED fnVars
    /\ mpc = "loaded"
    /\ unicos' = IF variant = "cobranca"
                 THEN DictFromKeys(SelectSeq(pares, ValidPar))
                 ELSE DictFromKeys(pares)
    /\ mpc' = "resolve"
    /\ apc' = "new"
    /\ UNCHANGED <<token, json_exc, init_auth, reqVars, variant, values,
                   has_header, pares, ki, page, total_pages, respostas, flags, status_map,
                   statuses, fetch_log, write_log>>

\* resolver_status up to its loop: api = ConfirmaFacilAPI(), status_map = {} / flags = {...}
ResolverStart ==
    /\ UNCHANGED fnVars
    /\ mpc = "resolve"
    /\ apc = "new"
    /\ NewAPI
    /\ flags' = IF variant = "preventivos" THEN [k \in Elems(unicos) |-> NoFlags] ELSE <<>>
    /\ status_map' = <<>>
    /\ ki' = 1
    /\ mpc' = "loop"
    /\ UNCHANGED <<rpc, hdr, attempt, retries, result, ncalls, inVars, page, total_pages,
                   respostas, statuses, fetch_log, write_log>>

\* cobranca: api.fetch_ocorrencias(nf, cnpj) up to its first GET
CobFetch ==
    /\ UNCHANGED fnVars
    /\ variant = "cobranca"
    /\ mpc = "loop"
    /\ ki <= Len(unicos)
    /\ fetch_log' = Append(fetch_log, unicos[ki])
    /\ BeginRequest(DefaultRetries)
    /\ mpc' = "fetch"
    /\ UNCHANGED <<apiVars, ncalls, inVars, ki, page, total_pages, respostas, flags,
                   status_map, statuses, write_log>>

\* cobranca: fetch_ocorrencias returns, the items are scanned, status_map[(nf, cnpj)] is set
CobFetchDone ==
    /\ UNCHANGED fnVars
    /\ variant = "cobranca"
    /\ mpc = "fetch"
    /\ rpc = "ret"
    /\ status_map' = (unicos[ki] :> StatusOf(ScanItems(result.respostas, NoFlags), "-")) @@ status_map
    /\ write_log' = Append(write_log, unicos[ki])
    /\ ki' = ki + 1
    /\ mpc' = "loop"
    /\ EndRequest
    /\ UNCHANGED <<apiVars, ncalls, inVars, page, total_pages, respostas, flags, statuses,
                   fetch_log>>

\* variant of CobStatuses: rows without a valid key are skipped
CobStatuses_SkipInvalid(ps, sm) ==
    LET valid == SelectSeq(ps, LAMBDA q : q[1] # <<>> /\ q[2] # <<>>)
    IN  [i \in 1..Len(valid) |-> IF valid[i] \in DOMAIN sm THEN sm[valid[i]] ELSE "-"]

\* cobranca: the loop that builds statuses from pares, after resolver_status returned
CobStatuses(ps, sm) ==
    [i \in 1..Len(ps) |->
        IF ps[i][1] = <<>> \/ ps[i][2] = <<>> THEN ""
        ELSE IF ps[i] \in DOMAIN sm THEN sm[ps[i]] ELSE "-"]

CobExpand ==
    /\ UNCHANGED fnVars
    /\ variant = "cobranca"
    /\ mpc = "loop"
    /\ ki > Len(unicos)
    /\ statuses' = CobStatuses(pares, status_map)
    /\ mpc' = "done"
    /\ UNCHANGED <<apiVars, reqVars, inVars, ki, page, total_pages, respostas, flags,
                   status_map, fetch_log, write_log>>

\* preventivos: api.fetch_ocorrencias(sublote) up to the GET of page 0
PrevFetch ==
    /\ UNCHANGED fnVars
    /\ variant = "preventivos"
    /\ mpc = "loop"
    /\ ki <= Len(chunked(unicos, SUBLOTE_SIZE))
    /\ fetch_log' = Append(fetch_log, chunked(unicos, SUBLOTE_SIZE)[ki])
    /\ page' = 0
    /\ total_pages' = 0
    /\ respostas' = <<>>
    /\ BeginRequest(DefaultRetries)
    /\ mpc' = "fetch"
    /\ UNCHANGED <<apiVars, ncalls, inVars, ki, flags, status_map, statuses, write_log>>

\* preventivos: a _request of fetch_ocorrencias returned; either the next page is
\* requested, or fetch_ocorrencias returns and the items are demultiplexed
PrevPageDone ==
    /\ UNCHANGED fnVars
    /\ variant = "preventivos"
    /\ mpc = "fetch"
    /\ rpc = "ret"
    /\ LET acc == respostas \o result.respostas
           tp == IF page = 0 THEN result.totalPages ELSE total_pages
       IN  /\ respostas' = acc
           /\ total_pages' = tp
           /\ IF page + 1 < tp
              THEN /\ page' = page + 1
                   /\ BeginRequest(DefaultRetries)
                   /\ UNCHANGED <<mpc, ki, flags>>
              ELSE /\ flags' = Demux(flags, acc)
                   /\ ki' = ki + 1
                   /\ mpc' = "loop"
                   /\ EndRequest
                   /\ UNCHANGED page
    /\ UNCHANGED <<apiVars, ncalls, inVars, status_map, statuses, fetch_log, write_log>>

\* preventivos: the loop that builds statuses from raw_values
PrevStatuses(rows, sm) ==
    [i \in 1..Len(rows) |->
        LET pedido == normalize_pedido(Cell(rows[i], 1))
        IN  IF pedido = <<>> THEN ""
            ELSE IF pedido \in DOMAIN sm THEN sm[pedido] ELSE "DESPACHADO"]

\* preventivos: status_map is built from flags (one entry per key of the dict, in
\* insertion order), resolver_status returns, main builds statuses
PrevExpand ==
    /\ UNCHANGED fnVars
    /\ variant = "preventivos"
    /\ mpc = "loop"
    /\ ki > Len(chunked(unicos, SUBLOTE_SIZE))
    /\ LET sm == [k \in DOMAIN flags |-> StatusOf(flags[k], "DESPACHADO")]
       IN  /\ status_map' = sm
           /\ statuses' = PrevStatuses(DataRows(values, has_header), sm)
    /\ write_log' = write_log \o DedupFrom(unicos, <<>>)
    /\ mpc' = "done"
    /\ UNCHANGED <<apiVars, reqVars, inVars, ki, page, total_pages, respostas, flags, fetch_log>>

\* output_values of update_status_in_sheet: the header cell, then one cell per status
OutputValues(hh, sts) == (IF hh THEN <<"STATUS">> ELSE <<>>) \o sts

\* an exception that left _request is caught nowhere: it leaves fetch_ocorrencias,
\* resolver_status and main
Propagate ==
    /\ UNCHANGED fnVars
    /\ mpc = "fetch"
    /\ rpc = "raised"
    /\ mpc' = "aborted"
    /\ EndRequest
    /\ UNCHANGED <<apiVars, ncalls, inVars, ki, page, total_pages, respostas, flags,
                   status_map, statuses, fetch_log, write_log>>

----------------------------------------------------------------------------
(* Run-level specification: one execution of main of either script *)

\* number of rows of the sheet, the header row included
MaxRows == 3

C(cs) == PyStr(cs)

\* rows of RETORNO!A:B
CobRows ==
    { <<>>,
      <<C(S7)>>,
      <<C(S7), C(<<"1", "2">>)>>,
      <<C(<<" ", "7", ".", "0">>), C(<<"1", ".", "2">>)>>,
      <<C(S8), C(<<"1", "2">>)>> }

CobHeaderRow == <<C(<<"N", "F">>), C(<<"c", "n", "p", "j">>)>>

\* rows of PREVENTIVOS!D:D
PrevRows ==
    { <<>>,
      <<C(S7)>>,
      <<C(<<" ", "7", ".", "0">>)>>,
      <<C(S8)>>,
      <<C(S9)>>,
      <<C(<<"N", "a", "N">>)>> }

PrevHeaderRow == <<C(<<"P", "e", "d", "i", "d", "o">>)>>

SeqsUpTo(S, n) == UNION {[1..k -> S] : k \in 0..n}

InitRun ==
    /\ InitCommon
    /\ FnIdle
    /\ variant \in {"cobranca", "preventivos"}
    /\ json_exc = TRUE
    /\ apc = "none"
    /\ mpc = "start"
    /\ IF variant = "cobranca"
       THEN values \in SeqsUpTo(CobRows, MaxRows)
                        \cup {<<CobHeaderRow>> \o d : d \in SeqsUpTo(CobRows, MaxRows - 1)}
       ELSE values \in SeqsUpTo(PrevRows, MaxRows)
                        \cup {<<PrevHeaderRow>> \o d : d \in SeqsUpTo(PrevRows, MaxRows - 1)}

NextRun ==
    \/ MainLoad
    \/ MainDedup
    \/ ResolverStart
    \/ CobFetch
    \/ CobFetchDone
    \/ CobExpand
    \/ PrevFetch
    \/ PrevPageDone
    \/ PrevExpand
    \/ ReqGet
    \/ ReqAuth
    \/ Propagate

SpecRun == InitRun /\ [][NextRun]_vars

----------------------------------------------------------------------------
(* Direct calls of the pure functions: the classification loops, chunked,   *)
(* normalize_nf / normalize_pedido, one record through the demultiplexer    *)

\* records in one classified response
MaxItems == 3
\* length of a list handed to chunked, and the largest chunk size
MaxLen == 4
MaxSize == 3
\* length of a text handed to normalize_nf / normalize_pedido
MaxText == 3

\* the keys of flags in the direct calls
FnKeys == {S7, S8}

\* tipoOcorrencia.codigo values: absent, of the ENTREGUE set, of the CANCELADO
\* set (also with a blank to strip), of neither set
FnCodes == {PyNone, PyInt(1), PyStr(S25), PyStr(<<" ", "2", "5">>), PyInt(5)}

\* records of the keys of FnKeys
FnItems == {Item(PyStr(k), PyNone, c) : k \in FnKeys, c \in FnCodes}

\* records with a direct order number that is absent, empty, zero, known,
\* unknown or a float, and a nested one that is absent or known
FnRecords ==
    {Item(p, e, c) : p \in {PyNone, EmptyStr, PyInt(0), PyStr(S7), PyStr(S9), PyFloat(8, DotZero)},
                     e \in {PyNone, PyStr(S8), PyInt(7)},
                     c \in {PyNone, PyInt(1), PyStr(S25), PyInt(5)}}

FlagValues == [entregue : BOOLEAN, cancelado : BOOLEAN]

FnChars == {"7", "0", ".", " ", "a"}

\* raw values of a cell or of a JSON field
FnValues ==
    {PyNone, PyNaN, PyInt(-5), PyInt(0), PyInt(12), PyFloat(7, DotZero),
     PyFloat(-7, DotZero), PyFloat(7, <<".", "5">>), PyStr(NaNText)}
    \cup {PyStr(t) : t \in SeqsUpTo(FnChars, MaxText)}

FnInputs ==
    [op : {"classify"}, items : SeqsUpTo(FnItems, MaxItems)]
    \cup [op : {"chunked"}, items : SeqsUpTo(FnKeys, MaxLen), size : 1..MaxSize]
    \cup [op : {"normalize"}, value : FnValues]
    \cup [op : {"demux"}, flags : [FnKeys -> FlagValues], item : FnRecords]

FnFrame == UNCHANGED <<apiVars, reqVars, inVars, runVars, fn_in>>

\* the scan and the if / elif / else of resolver_status, of both scripts, on one response
FnClassify ==
    /\ fn_pc = "call"
    /\ fn_in.op = "classify"
    /\ fn_out' = [cob |-> StatusOf(ScanItems(fn_in.items, NoFlags), "-"),
                  prev |-> LET fl == Demux([k \in FnKeys |-> NoFlags], fn_in.items)
                           IN  [k \in FnKeys |-> StatusOf(fl[k], "DESPACHADO")]]
    /\ fn_pc' = "ret"
    /\ FnFrame

\* list(chunked(items, size))
FnChunked ==
    /\ fn_pc = "call"
    /\ fn_in.op = "chunked"
    /\ fn_out' = chunked(fn_in.items, fn_in.size)
    /\ fn_pc' = "ret"
    /\ FnFrame

\* normalize_nf(value) and normalize_pedido(value)
FnNormalize ==
    /\ fn_pc = "call"
    /\ fn_in.op = "normalize"
    /\ fn_out' = [nf |-> normalize_nf(fn_in.value), pedido |-> normalize_pedido(fn_in.value)]
    /\ fn_pc' = "ret"
    /\ FnFrame

\* one iteration of "for item in ocorrencias" of resolver_status (preventivos)
FnDemux ==
    /\ fn_pc = "call"
    /\ fn_in.op = "demux"
    /\ fn_out' = Demux(fn_in.flags, <<fn_in.item>>)
    /\ fn_pc' = "ret"
    /\ FnFrame

InitFn ==
    /\ InitCommon
    /\ variant = "client"
    /\ json_exc = TRUE
    /\ apc = "none"
    /\ mpc = "fn"
    /\ values = <<>>
    /\ fn_pc = "call"
    /\ fn_in \in FnInputs
    /\ fn_out = <<>>

NextFn == FnClassify \/ FnChunked \/ FnNormalize \/ FnDemux

SpecFn == InitFn /\ [][NextFn]_vars

----------------------------------------------------------------------------
(* Properties of _request and authenticate *)

IsGet(e) == e.op = "get"
IsLogin(e) == e.op = "login"
IsSleep(e) == e.op = "sleep"

Gets(tr) == SelectSeq(tr, IsGet)
Logins(tr) == SelectSeq(tr, IsLogin)
Sleeps(tr) == SelectSeq(tr, IsSleep)

\* the outcomes of the GETs of a call, in order
GetOuts(tr) == [i \in 1..Len(Gets(tr)) |-> Gets(tr)[i].out]

\* positions of the trace holding a GET that failed with something other than 401/404
TransientAt(tr) == {i \in 1..Len(tr) : IsGet(tr[i]) /\ tr[i].out \in {"http", "neterr", "badjson"}}

\* C1: _request never raises to its caller, whatever the remote outcomes are
C1_NeverRaises == rpc # "raised"

\* C2 (as stated): a 401 answered by a successful re-authentication does not
\* consume an attempt, so the attempt counter only counts the failed GETs
C2_ReauthKeepsAttempt ==
    rpc = "get" => attempt = 1 + Cardinality(TransientAt(trace))

\* C2 (amended): every GET of a call, a 401 answered by a successful
\* re-authentication included, consumes one attempt; the GET that follows the
\* re-authentication carries the new token; the call never issues more than
\* `retries` GETs, and when the 401 arrives on the last attempt the call
\* returns the empty result after the login without another GET
C2_ReauthConsumesAttempt ==
    /\ Len(Gets(trace)) <= retries
    /\ rpc = "get" => attempt = 1 + Len(Gets(trace))
    /\ rpc = "auth" => attempt = Len(Gets(trace))
    /\ (rpc = "get" /\ trace # <<>> /\ IsLogin(trace[Len(trace)])) =>
          (hdr = trace[Len(trace)].tok /\ hdr = token)
    /\ (/\ rpc = "ret"
        /\ trace # <<>>
        /\ IsLogin(trace[Len(trace)])
        /\ trace[Len(trace)].out = "ok") => (Len(Gets(trace)) = retries /\ result = EmptyResult)

C2_Witness ==
    /\ rpc = "get"
    /\ attempt = 2
    /\ Len(trace) = 2
    /\ IsLogin(trace[2]) /\ trace[2].out = "ok"

\* C3: a call answered 401 and then, after the re-authentication, 200 returns
\* the records of that 200 response, as a call answered 200 at once does, and
\* makes exactly one login POST
C3_AuthExpiryRecovery ==
    rpc = "ret" =>
        /\ GetOuts(trace) = <<"401", "ok">> =>
              /\ result = Gets(trace)[2].body
              /\ Len(Logins(trace)) = 1
        /\ GetOuts(trace) = <<"ok">> =>
              /\ result = Gets(trace)[1].body
              /\ Len(Logins(trace)) = 0

C3_Witness ==
    /\ rpc = "ret"
    /\ GetOuts(trace) = <<"401", "ok">>
    /\ result.respostas # <<>>

\* C4: once a re-authentication triggered by a 401 has failed, the call has
\* returned the empty result and nothing (GET, sleep, login) follows the login
C4_ReauthFailureReturnsEmpty ==
    \A i \in 1..Len(trace) :
        (rpc # "idle" /\ IsLogin(trace[i]) /\ trace[i].out # "ok") =>
            /\ i = Len(trace)
            /\ rpc = "ret"
            /\ result = EmptyResult

C4_Witness ==
    /\ rpc = "ret"
    /\ Len(trace) = 4
    /\ IsSleep(trace[2])
    /\ IsLogin(trace[4]) /\ trace[4].out = "http"

\* the last authenticate() call, while the trace still holds it
LastIsLogin == trace # <<>> /\ IsLogin(trace[Len(trace)])
LastEv == trace[Len(trace)]

\* C5 (as stated): after a failed authenticate() the stored token is unset,
\* on the initial login and on a re-authentication alike
C5_FailureUnsetsToken ==
    (LastIsLogin /\ LastEv.out # "ok") => token \in {NoToken, EmptyToken}

\* C5 (amended): a successful authenticate() replaces the stored token by the
\* returned one; a failure by exception (network error, non-2xx status,
\* unusable body) returns failure and leaves the stored token as it was
\* (unset on the initial login, the previous token on a re-authentication);
\* a 2xx answer without a token returns failure and stores the absent/empty value
C5_AuthenticateToken ==
    LastIsLogin =>
        /\ LastEv.out = "ok" => (token = LastEv.tok /\ token \in Tokens)
        /\ LastEv.out \in {"neterr", "http", "badbody"} => token = LastEv.auth
        /\ LastEv.out \in {"notoken", "emptytoken"} => token \in {NoToken, EmptyToken}
        /\ LastEv.out # "ok" => (rpc \in {"idle", "ret"} /\ (apc = "ready" /\ rpc = "idle" => ~init_auth))
        /\ (LastEv.out = "ok" /\ rpc = "idle") => init_auth

C5_Witness ==
    /\ LastIsLogin
    /\ LastEv.out = "neterr"
    /\ LastEv.auth \in Tokens
    /\ token = LastEv.auth

\* C6: a call whose GETs all fail with something other than 401/404 issues
\* exactly `retries` GETs and returns the empty result; a successful GET ends
\* the call with its parsed payload
C6_TransientRetriedToBound ==
    /\ (/\ rpc \in {"ret", "raised"}
        /\ trace # <<>>
        /\ \A i \in 1..Len(trace) : IsGet(trace[i]) => i \in TransientAt(trace)
        /\ Logins(trace) = <<>>) =>
            /\ rpc = "ret"
            /\ Len(Gets(trace)) = retries
            /\ result = EmptyResult
    /\ \A i \in 1..Len(trace) :
          (IsGet(trace[i]) /\ trace[i].out = "ok") =>
              (i = Len(trace) /\ rpc = "ret" /\ result = trace[i].body)

\* C7: a 404 ends the call at once with the empty result: nothing follows it
\* in the call, and the step that receives it leaves the stored token alone
C7_NotFoundState ==
    \A i \in 1..Len(trace) :
        (IsGet(trace[i]) /\ trace[i].out = "404") =>
            /\ i = Len(trace)
            /\ rpc = "ret"
            /\ result = EmptyResult

C7_NotFoundStep ==
    (/\ Len(trace') = Len(trace) + 1
     /\ IsGet(trace'[Len(trace')])
     /\ trace'[Len(trace')].out = "404") => token' = token

\* C7: both parts, in every state and every step of every call
C7_NotFoundIsEmpty == []C7_NotFoundState /\ [][C7_NotFoundStep]_vars

C7_Witness ==
    /\ rpc = "ret"
    /\ Len(Gets(trace)) = 3
    /\ trace[Len(trace)].out = "404"
    /\ token \in Tokens

----------------------------------------------------------------------------
(* Properties of a run of main *)

\* the data rows of the sheet and the key each of them carries
Rows == DataRows(values, HasHeader(values))

RowKey(i) ==
    IF variant = "cobranca"
    THEN <<normalize_nf(Cell(Rows[i], 1)), normalize_cnpj(Cell(Rows[i], 2))>>
    ELSE normalize_pedido(Cell(Rows[i], 1))

\* the row's key belongs to the lookup set
RowValid(i) ==
    IF variant = "cobranca" THEN ValidPar(RowKey(i)) ELSE KeepPedido(RowKey(i))

ValidKeys == {RowKey(i) : i \in {j \in 1..Len(Rows) : RowValid(j)}}

RECURSIVE Flatten(_)
Flatten(sqs) == IF sqs = <<>> THEN <<>> ELSE Head(sqs) \o Flatten(Tail(sqs))

\* the keys handed to fetch_ocorrencias so far, in order
FetchedKeys == IF variant = "preventivos" THEN Flatten(fetch_log) ELSE fetch_log

NoDup(sq) == \A i, j \in 1..Len(sq) : sq[i] = sq[j] => i = j

\* C8: when the login of the constructor yields no token, no occurrence GET
\* is issued in the run
C8_StartupAuthFailureIsFatal ==
    (apc = "ready" /\ ~init_auth) => Gets(trace) = <<>>

\* C9: a remote failure on one key or sublote never aborts the run: the run
\* reaches its end with every key looked up and classified
C9_FailureIsolation ==
    /\ mpc # "aborted"
    /\ (mpc = "done" /\ values # <<>>) =>
          /\ Elems(FetchedKeys) = Elems(unicos)
          /\ DOMAIN status_map = Elems(unicos)

\* C10: no key is handed to fetch_ocorrencias twice and no status_map entry is
\* written twice; a finished run has looked up and written exactly the valid
\* keys of the sheet, and every row with a valid key carries the status
\* status_map holds for that key
C10_Dedup ==
    /\ NoDup(FetchedKeys)
    /\ NoDup(write_log)
    /\ (mpc = "done" /\ values # <<>>) =>
          /\ Elems(FetchedKeys) = ValidKeys
          /\ Elems(write_log) = ValidKeys
          /\ DOMAIN status_map = ValidKeys
          /\ Len(statuses) = Len(Rows)
          /\ \A i \in 1..Len(Rows) : RowValid(i) => statuses[i] = status_map[RowKey(i)]

C10_Witness ==
    /\ mpc = "done"
    /\ variant = "cobranca"
    /\ Len(Rows) = 3
    /\ Rows[1] # Rows[3]
    /\ RowValid(1) /\ RowValid(2) /\ RowValid(3)
    /\ RowKey(1) = RowKey(3)
    /\ RowKey(1) # RowKey(2)
    /\ Len(fetch_log) = 2
    /\ statuses[1] = "ENTREGUE"
    /\ statuses[2] = "CANCELADO"

\* the key of a data row has an empty component after normalization
RowBlank(i) ==
    IF variant = "cobranca"
    THEN RowKey(i)[1] = <<>> \/ RowKey(i)[2] = <<>>
    ELSE RowKey(i) = <<>>

VariantDefault == IF variant = "cobranca" THEN "-" ELSE "DESPACHADO"

\* C11: a finished run emits one status per data row, at the row's own index:
\* the status of the row's key for a looked-up key (duplicates included), the
\* empty string for a blank row, the default for a key that was not looked up;
\* with the header cell the written column is as long as the sheet
C11_RoundTripOrdering ==
    (mpc = "done" /\ values # <<>>) =>
        /\ Len(statuses) = Len(Rows)
        /\ Len(OutputValues(has_header, statuses)) = Len(values)
        /\ \A i \in 1..Len(Rows) :
              statuses[i] = IF RowBlank(i) THEN ""
                            ELSE IF RowKey(i) \in DOMAIN status_map THEN status_map[RowKey(i)]
                            ELSE VariantDefault

C11_Witness ==
    /\ mpc = "done"
    /\ variant = "cobranca"
    /\ has_header
    /\ Len(Rows) = 2
    /\ RowBlank(1)
    /\ statuses = <<"", "CANCELADO">>

\* C12: every row whose key is not in the lookup set (an empty component, or
\* an order number the loader filters out) is emitted with the empty string
C12_InvalidRowsEmpty ==
    (mpc = "done" /\ values # <<>>) =>
        \A i \in 1..Len(Rows) : ~RowValid(i) => statuses[i] = ""

\* C13: every key handed to fetch_ocorrencias has all its components
\* non-empty, and no sublote is empty
C13_OnlyEligibleKeysQueried ==
    /\ \A i \in 1..Len(FetchedKeys) :
          IF variant = "cobranca"
          THEN FetchedKeys[i][1] # <<>> /\ FetchedKeys[i][2] # <<>>
          ELSE FetchedKeys[i] # <<>>
    /\ variant = "preventivos" => \A b \in 1..Len(fetch_log) : fetch_log[b] # <<>>

C13_Witness ==
    /\ variant = "cobranca"
    /\ Len(Rows) = 3
    /\ RowKey(1)[1] # <<>> /\ RowKey(1)[2] = <<>>
    /\ RowKey(2) = <<<<>>, <<>>>>
    /\ Len(fetch_log) = 1
    /\ rpc = "ret"

\* C17: fetch_ocorrencias requests only the pages 1 .. totalPages-1 after page
\* 0, and a page whose request fails contributes no records without stopping
\* the pagination: fetch_ocorrencias is never left by an exception while a
\* page after page 0 is being requested
C17_Pagination ==
    variant = "preventivos" =>
        /\ mpc = "fetch" => (page = 0 \/ page < total_pages)
        /\ ~(mpc = "aborted" /\ page >= 1)

\* the number of the attempt that issued the GET at position i of the trace
AttemptOf(tr, i) == Len(Gets(SubSeq(tr, 1, i)))

\* C20: a GET that fails with something other than 401/404 on attempt n,
\* n not the last allowed attempt, is followed by a sleep of exactly 2*n
\* seconds and then by the next GET; nothing else of a call sleeps
C20_BackoffSchedule ==
    /\ \A i \in TransientAt(trace) :
          AttemptOf(trace, i) < retries =>
              /\ i < Len(trace)
              /\ trace[i + 1] = SleepEv(2 * AttemptOf(trace, i))
              /\ IF i + 1 < Len(trace) THEN IsGet(trace[i + 2]) ELSE rpc = "get"
    /\ \A j \in 1..Len(trace) :
          IsSleep(trace[j]) =>
              /\ j > 1
              /\ (j - 1) \in TransientAt(trace)
              /\ AttemptOf(trace, j - 1) < retries

----------------------------------------------------------------------------
(* Properties of the pure functions *)

Returned(op) == fn_pc = "ret" /\ fn_in.op = op

\* the occurrence codes of a response, and those of the records of key k
CodesOf(items) == {extract_codigo(items[i]) : i \in 1..Len(items)}
CodesOfKey(items, k) ==
    {extract_codigo(items[i]) : i \in {j \in 1..Len(items) : extract_pedido(items[j]) = k}}

\* the status the precedence rule gives to a set of codes
ByPrecedence(codes, default) ==
    IF codes \cap ENTREGUE_CODES # {} THEN "ENTREGUE"
    ELSE IF codes \cap CANCELADO_CODES # {} THEN "CANCELADO"
    ELSE default

\* C14: the status of a key is ENTREGUE when one of its codes is in the
\* ENTREGUE set, otherwise CANCELADO when one is in the CANCELADO set,
\* otherwise "-" (invoice+company) or DESPACHADO (order number)
C14_Precedence ==
    Returned("classify") =>
        /\ fn_out.cob = ByPrecedence(CodesOf(fn_in.items), "-")
        /\ \A k \in FnKeys :
              fn_out.prev[k] = ByPrecedence(CodesOfKey(fn_in.items, k), "DESPACHADO")

C14_Witness ==
    /\ Returned("classify")
    /\ CodesOfKey(fn_in.items, S7) \cap ENTREGUE_CODES # {}
    /\ CodesOfKey(fn_in.items, S7) \cap CANCELADO_CODES # {}
    /\ CodesOfKey(fn_in.items, S8) \cap ENTREGUE_CODES = {}
    /\ CodesOfKey(fn_in.items, S8) \cap CANCELADO_CODES # {}
    /\ fn_out.cob = "ENTREGUE"
    /\ fn_out.prev[S7] = "ENTREGUE"
    /\ fn_out.prev[S8] = "CANCELADO"

\* the orders in which the records of a response can arrive
Orderings(items) ==
    {[i \in 1..Len(items) |-> items[f[i]]] :
        f \in {g \in [1..Len(items) -> 1..Len(items)] :
                  \A a, b \in 1..Len(items) : g[a] = g[b] => a = b}}

\* C15: the statuses do not depend on the order of the records, nor, for the
\* order-number script, on how the records are split over two responses
C15_OrderIndependent ==
    Returned("classify") =>
        \A ys \in Orderings(fn_in.items) :
            /\ StatusOf(ScanItems(ys, NoFlags), "-") = fn_out.cob
            /\ \A cut \in 0..Len(ys) :
                  LET first == Demux([k \in FnKeys |-> NoFlags], SubSeq(ys, 1, cut))
                      fl == Demux(first, SubSeq(ys, cut + 1, Len(ys)))
                  IN  \A k \in FnKeys : StatusOf(fl[k], "DESPACHADO") = fn_out.prev[k]

C15_Witness ==
    /\ Returned("classify")
    /\ Len(fn_in.items) = 3
    /\ extract_codigo(fn_in.items[1]) \in ENTREGUE_CODES
    /\ extract_codigo(fn_in.items[2]) \in CANCELADO_CODES
    /\ extract_codigo(fn_in.items[3]) = <<"5">>
    /\ extract_pedido(fn_in.items[1]) = extract_pedido(fn_in.items[2])
    /\ fn_out.cob = "ENTREGUE"

\* C16: chunked yields the list cut into consecutive pieces, in order: every
\* chunk holds at most `size` items and only the last may hold fewer, the item
\* at position p of the list is item ((p-1) mod size)+1 of chunk
\* ((p-1) div size)+1 and of no other, and the chunks put end to end are the list
C16_BatchingCoverage ==
    Returned("chunked") =>
        LET items == fn_in.items
            size == fn_in.size
            n == Len(fn_out)
        IN  /\ Flatten(fn_out) = items
            /\ \A c \in 1..n : Len(fn_out[c]) >= 1 /\ Len(fn_out[c]) <= size
            /\ \A c \in 1..(n - 1) : Len(fn_out[c]) = size
            /\ \A p \in 1..Len(items) :
                  LET c == ((p - 1) \div size) + 1
                      j == ((p - 1) % size) + 1
                  IN  c <= n /\ j <= Len(fn_out[c]) /\ fn_out[c][j] = items[p]

C16_Witness ==
    /\ Returned("chunked")
    /\ fn_in.items = <<S7, S8, S7, S7>>
    /\ fn_in.size = 3
    /\ fn_out = <<<<S7, S8, S7>>, <<S7>>>>

\* C18 (as stated): normalize_nf and normalize_pedido return the empty string
\* or a string of digits only
C18_CanonicalForm ==
    Returned("normalize") =>
        /\ fn_out.nf = <<>> \/ IsDigitStr(fn_out.nf)
        /\ fn_out.pedido = <<>> \/ IsDigitStr(fn_out.pedido)

\* a str of blanks only (the empty str included)
IsBlankStr(v) == v.ty = "str" /\ \A i \in 1..Len(v.s) : v.s[i] = " "

\* digits followed by ".0"
IsDigitsDotZero(cs) ==
    Len(cs) > 2 /\ cs[Len(cs) - 1] = "." /\ cs[Len(cs)] = "0"
    /\ \A i \in 1..(Len(cs) - 2) : cs[i] \in Digits

\* cs without the blanks around it: a piece of cs with only blanks on both sides
IsStripOf(o, cs) ==
    /\ o = <<>> \/ (o[1] # " " /\ o[Len(o)] # " ")
    /\ \E a \in 0..Len(cs) :
          /\ a + Len(o) <= Len(cs)
          /\ \A i \in 1..Len(o) : cs[a + i] = o[i]
          /\ \A i \in 1..Len(cs) : (i <= a \/ i > a + Len(o)) => cs[i] = " "

\* C18 (amended): both functions compute the same value; it is the empty
\* string exactly for None, NaN and blank text; an int or integer-valued float
\* gives the decimal text of the integer, with its sign; anything else gives
\* str(value) without the surrounding blanks, minus one trailing ".0" when
\* only digits precede it; so the value is digits-only exactly for the
\* non-negative integers and for text of digits with an optional ".0",
\* and other text comes back as it is
C18_Normalized ==
    Returned("normalize") =>
        LET v == fn_in.value
            o == fn_out.nf
            whole == v.ty = "int" \/ (v.ty = "float" /\ v.s = <<".", "0">>)
            text == IF v.ty = "str" THEN v.s
                    ELSE IF v = PyNaN THEN <<"n", "a", "n">>
                    ELSE IntStr(v.n) \o v.s
        IN  /\ fn_out.pedido = o
            /\ o = <<>> <=> (v = PyNone \/ v = PyNaN \/ IsBlankStr(v))
            /\ whole => o = IntStr(v.n)
            /\ (~whole /\ v # PyNone /\ v # PyNaN) =>
                  IF \E d \in SeqsUpTo(FnChars, MaxText) : IsDigitsDotZero(d) /\ IsStripOf(d, text)
                  THEN IsDigitStr(o) /\ IsStripOf(o \o <<".", "0">>, text)
                  ELSE IsStripOf(o, text)
            /\ IsDigitStr(o) <=>
                  \/ whole /\ v.n >= 0
                  \/ v.ty = "str" /\ \E d \in SeqsUpTo(FnChars, MaxText) :
                        (IsDigitStr(d) \/ IsDigitsDotZero(d)) /\ IsStripOf(d, text)

C18_Witness ==
    /\ Returned("normalize")
    /\ fn_in.value = PyStr(<<"a", ".", "0">>)
    /\ fn_out.nf = <<"a", ".", "0">>
    /\ fn_out.pedido = <<"a", ".", "0">>

\* C19: a record changes only the flags of the key it carries (the direct
\* order number, or the nested one when the direct one is missing); a record
\* whose key is empty or is not a key of flags changes nothing; a flag that
\* is set stays set, and a flag becomes set only by a code of its set
C19_DemuxFrame ==
    Returned("demux") =>
        LET key == extract_pedido(fn_in.item)
            codigo == extract_codigo(fn_in.item)
        IN  /\ DOMAIN fn_out = DOMAIN fn_in.flags
            /\ \A k \in FnKeys : k # key => fn_out[k] = fn_in.flags[k]
            /\ (key = <<>> \/ key \notin FnKeys) => fn_out = fn_in.flags
            /\ \A k \in FnKeys :
                  /\ fn_in.flags[k].entregue => fn_out[k].entregue
                  /\ fn_in.flags[k].cancelado => fn_out[k].cancelado
            /\ key \in FnKeys =>
                  /\ fn_out[key].entregue = (fn_in.flags[key].entregue \/ codigo \in ENTREGUE_CODES)
                  /\ fn_out[key].cancelado = (fn_in.flags[key].cancelado \/ codigo \in CANCELADO_CODES)

C19_Witness ==
    /\ Returned("demux")
    /\ fn_in.item = Item(PyNone, PyStr(S8), PyInt(1))
    /\ fn_in.flags[S8] = [entregue |-> FALSE, cancelado |-> TRUE]
    /\ fn_in.flags[S7] = [entregue |-> TRUE, cancelado |-> TRUE]
    /\ fn_out[S8] = [entregue |-> TRUE, cancelado |-> TRUE]
    /\ fn_out[S7] = fn_in.flags[S7]

----------------------------------------------------------------------------
(* Token freshness and termination of _request *)

\* positions of the trace before j that hold a successful login
OkLoginsBefore(tr, j) == {i \in 1..(j - 1) : IsLogin(tr[i]) /\ tr[i].out = "ok"}

\* the header the next GET will carry is the stored token, and every GET of
\* the running call that follows a successful re-authentication carried the
\* token of the latest one
C21_FreshState ==
    /\ rpc = "get" => hdr = token
    /\ \A j \in 1..Len(trace) :
          (IsGet(trace[j]) /\ OkLoginsBefore(trace, j) # {}) =>
              \E i \in OkLoginsBefore(trace, j) :
                  /\ \A k \in OkLoginsBefore(trace, j) : k <= i
                  /\ trace[j].auth = trace[i].tok

\* a step that sends a GET sends it with the token stored at that moment
C21_FreshStep ==
    (Len(trace') = Len(trace) + 1 /\ IsGet(trace'[Len(trace')])) =>
        trace'[Len(trace')].auth = token

\* C21: every occurrence GET carries the token stored in the API object when
\* it is sent, in the first call and in every later call (page, key, sublote)
\* alike, so no GET carries a token that a successful re-authentication replaced
C21_TokenFreshness == []C21_FreshState /\ [][C21_FreshStep]_vars

\* a later page request, with no login of its own, carries the token that a
\* re-authentication of an earlier request stored
C21_Witness ==
    /\ variant = "preventivos"
    /\ page = 1
    /\ Len(trace) = 1
    /\ IsGet(trace[1])
    /\ trace[1].auth = "T2"
    /\ token = "T2"

\* a _request call is running / has ended (by return or by an exception)
Running == rpc \in {"get", "auth"}
Ended == rpc \in {"ret", "raised"}

\* at most `retries` GETs and at most `retries` re-authentications in a call
C22_Bounded ==
    rpc # "idle" =>
        /\ Len(Gets(trace)) <= retries
        /\ Len(Logins(trace)) <= retries
        /\ Len(Logins(trace)) <= Len(Gets(trace))

\* C22: every call of _request ends, whatever the service answers, after at
\* most `retries` GETs and at most `retries` re-authentications
C22_Terminates == []C22_Bounded /\ (Running ~> Ended)

\* the service answers 401 to every GET and accepts every login
C22_Witness ==
    /\ rpc = "ret"
    /\ retries = DefaultRetries
    /\ GetOuts(trace) = <<"401", "401", "401">>
    /\ Len(Logins(trace)) = DefaultRetries
    /\ \A i \in 1..Len(trace) : IsLogin(trace[i]) => trace[i].out = "ok"
    /\ result = EmptyResult

====
